---- MODULE Spec2Model ----
(***************************************************************************)
(* Model of the live duplex audio conversation component                   *)
(* (components/LiveConversation.tsx): the session lifecycle driven by      *)
(* startSession / stopEverything and the transport callbacks, and the      *)
(* playback scheduler inside onMessage; and of the localStorage service    *)
(* (services/storage.ts) that keeps the users and their saved projects.    *)
(*                                                                         *)
(* Every invocation of startSession is a "session" s: it owns the closure  *)
(* variables `stream` and `outputContext`, the input AudioContext it       *)
(* created and the transport connection it opened.  The component itself   *)
(* owns the React state (isConnected, isSpeaking, isAgentSpeaking) and the *)
(* refs; a ref holds 0 for null or the number of the session whose         *)
(* resource it points at.                                                  *)
(***************************************************************************)
EXTENDS Integers, Sequences, FiniteSets, TLC

\* ------------------------------------------------------------------ bounds
MaxSessions == 3   \* startSession invocations explored
MaxMsgs     == 3   \* inbound messages delivered, over all sessions
MaxClock    == 2   \* wall-clock ticks explored
MaxDur      == 1   \* longest decoded buffer, in ticks
MaxSteps    == 9   \* handler invocations and clock ticks explored in one run
MaxFrames   == 2   \* capture frames delivered to onaudioprocess
MaxCapSteps == 11  \* handler invocations explored in one run of the capture path
MaxCurSteps == 10  \* handler invocations and ticks explored in one run of the scheduler
FrameSize   == 3   \* samples of one capture frame (line 69 asks for 4096)
MaxAmp      == 4   \* largest sample magnitude, in the unit of SumThreshold
MaxProjects == 3   \* distinct project ids handed to saveProject / deleteProject

\* Line 75: the volume check's threshold on the sum of the magnitudes.
SumThreshold == 10

Sessions  == 1..MaxSessions
MsgIds    == 1..MaxMsgs
Durations == 1..MaxDur
FrameIds  == 1..MaxFrames
Samples   == -MaxAmp..MaxAmp
Frames    == [1..FrameSize -> Samples]

\* Usernames typed into the form, with their case variants, and the e-mail.
Usernames  == {"ali", "Ali", "ALI", "sara"}
Emails     == {"user@example.org"}
\* User ids handed to updatePreferences: the ids register can give, and more.
UserIds    == 1..Cardinality(Usernames)
Schemes    == {"ISO", "ALA-LC"}
ProjectIds == 1..MaxProjects
\* The userId of a project, a string the service only compares.
OwnerIds   == {"u1", "u2"}
\* The createdAt of a project: Date.now() at an earlier and at a later save.
Times      == {0, 1}

VARIABLES
    mounted,            \* the component is mounted (useEffect cleanup not yet run)
    isConnected,        \* useState, line 8
    isSpeaking,         \* useState, line 9
    isAgentSpeaking,    \* useState, line 10
    audioContextRef,    \* line 13: 0 or the session whose input context it holds
    mediaStreamRef,     \* line 14
    processorRef,       \* line 15
    sourceRef,          \* line 16
    sessionRef,         \* line 17
    nextStartTimeRef,   \* line 18: the scheduling cursor
    lastScheduledEnd,   \* the cursor, were an interruption to reset it to the clock
    sourcesRef,         \* line 19: the active set, a set of buffer-source ids
    started,            \* number of startSession invocations so far
    pc,                 \* per session: where its startSession / transport stands
    inCtx,              \* per session: the input AudioContext it created
    outCreated,         \* per session: wall time its outputContext was created, -1 if none
    stream,             \* per session: the MediaStream getUserMedia gave it
    graph,              \* per session: the capture graph onOpen wired
    graphCtx,           \* per session: the input context its capture graph was created on
    promise,            \* per session: the session promise connectLiveSession returned
    frames,             \* capture frames delivered to onaudioprocess so far
    queued,             \* per session: sends waiting on its pending session promise
    sent,               \* history: the sendRealtimeInput calls made, in order
    now,                \* wall clock
    arrivals,           \* messages delivered to onMessage so far
    pending,            \* onMessage invocations suspended at `await decodeAudioData`
    srcState,           \* per buffer source: none / started / flushed / torn / done
    sched,              \* history: the buffers scheduled, in scheduling order
    reset,              \* history: last cursor reset since the last scheduling
    lastIntT,           \* history: per session, its output clock at its last interruption
    intArr,             \* history: per session, arrival number of its last handled interruption
    torn,               \* history: per session, whether stopEverything ran since it started
    steps,              \* history: handler invocations and clock ticks so far
    inputData,          \* line 72: the samples of the frame under the volume check
    users,              \* localStorage bayan_users, parsed (<<>> when absent)
    currentUser,        \* localStorage bayan_current_user_id (0 when absent)
    projects,           \* localStorage bayan_projects, parsed (<<>> when absent)
    ret                 \* what the last StorageService call returned or threw

refs    == <<audioContextRef, mediaStreamRef, processorRef, sourceRef, sessionRef>>
flags   == <<isConnected, isSpeaking, isAgentSpeaking>>
devices == <<inCtx, outCreated, stream, graph>>
play    == <<nextStartTimeRef, lastScheduledEnd, sourcesRef, srcState, sched,
             reset, lastIntT, intArr>>
capture == <<graphCtx, promise, frames, queued, sent>>
storage == <<users, currentUser, projects, ret>>
\* The state of the conversation component.
conversation ==
    <<mounted, flags, refs, devices, play, capture, started, pc, now,
      arrivals, pending, torn, steps, inputData>>
vars    == <<conversation, storage>>

\* --------------------------------------------------------------- helpers
\* A useState setter: React drops updates of a component that is unmounted.
SetState(cur, v) == IF mounted THEN v ELSE cur

\* outputContext.currentTime of session s: the context's own clock, which
\* starts at 0 when the context is created and is never negative.
CurrentTime(s) == now - outCreated[s]

Max(a, b) == IF a < b THEN b ELSE a

\* The component after construction.
Idle ==
    /\ mounted = TRUE
    /\ isConnected = FALSE
    /\ isSpeaking = FALSE
    /\ isAgentSpeaking = FALSE
    /\ audioContextRef = 0
    /\ mediaStreamRef = 0
    /\ processorRef = 0
    /\ sourceRef = 0
    /\ sessionRef = 0
    /\ nextStartTimeRef = 0
    /\ lastScheduledEnd = 0
    /\ sourcesRef = {}
    /\ started = 0
    /\ pc = [s \in Sessions |-> "none"]
    /\ inCtx = [s \in Sessions |-> "none"]
    /\ outCreated = [s \in Sessions |-> -1]
    /\ stream = [s \in Sessions |-> "none"]
    /\ graph = [s \in Sessions |-> "none"]
    /\ graphCtx = [s \in Sessions |-> 0]
    /\ promise = [s \in Sessions |-> "none"]
    /\ frames = 0
    /\ queued = [s \in Sessions |-> <<>>]
    /\ sent = <<>>
    /\ now = 0
    /\ arrivals = 0
    /\ pending = {}
    /\ srcState = [i \in MsgIds |-> "none"]
    /\ sched = <<>>
    /\ reset = "none"
    /\ lastIntT = [s \in Sessions |-> -1]
    /\ intArr = [s \in Sessions |-> 0]
    /\ torn = [s \in Sessions |-> "no"]
    /\ steps = 0

\* What a call returns: nothing, null, a user, a list of projects, or the
\* Error it threw.
Returned(kind, user, list) == [kind |-> kind, user |-> user, list |-> list]

\* localStorage with none of the service's keys set.
StorageEmpty ==
    /\ users = <<>>
    /\ currentUser = 0
    /\ projects = <<>>
    /\ ret = Returned("void", 0, <<>>)

Init == Idle /\ inputData = <<>> /\ StorageEmpty

\* One more handler invocation (or clock tick) within the explored run
\* length.  The component's handlers keep no frame and never call the
\* storage service.
Step ==
    steps < MaxSteps /\ steps' = steps + 1 /\ UNCHANGED <<inputData, storage>>

\* The same, for the runs that explore the scheduler alone.
CurStep ==
    steps < MaxCurSteps /\ steps' = steps + 1 /\ UNCHANGED <<inputData, storage>>

\* The same, for the runs that explore the capture path.
CapStep ==
    steps < MaxCapSteps /\ steps' = steps + 1 /\ UNCHANGED <<inputData, storage>>

\* ------------------------------------------------------- stopEverything
\* Mutant of StopSources: the active set is cleared without stopping anything.
StopSourcesNone(states, set, how) == states

\* Lines 46 and 119: stop() on every source of the active set, whatever it
\* is doing (waiting for its start time, playing, or played out with its
\* ended event still to come).  `how` records who stopped it.
StopSources(states, set, how) ==
    [i \in MsgIds |-> IF i \in set THEN how ELSE states[i]]

\* History: the sessions whose startSession was still before Open when
\* stopEverything ran are torn "early", the other started ones "late".
TornAfterStop ==
    [s \in Sessions |->
        IF torn[s] # "no" \/ pc[s] = "none" THEN torn[s]
        ELSE IF pc[s] \in {"gum", "connecting"} THEN "early" ELSE "late"]

\* Lines 22-25: stop the tracks of the stream the ref holds.
StopTracks(ref, st) ==
    IF ref # 0 THEN [st EXCEPT ![ref] = "stopped"] ELSE st

\* Lines 26-33: disconnect the processor and source nodes the refs hold.
DisconnectGraph(pref, sref, g) ==
    [s \in Sessions |-> IF s \in {pref, sref} THEN "cut" ELSE g[s]]

\* Lines 34-37: close the input context the ref holds.
CloseContext(ref, ctx) ==
    IF ref # 0 THEN [ctx EXCEPT ![ref] = "closed"] ELSE ctx

\* Mutant of ClearRef: the reference keeps what it held.
ClearRefKept(ref) == ref

\* Lines 24, 28, 32 and 36: the reference is set to null.
ClearRef(ref) == 0

\* Lines 21-48, the whole routine.  It touches neither outputContext (a
\* local of startSession) nor the transport session behind sessionRef.
StopEverything ==
    /\ stream' = StopTracks(mediaStreamRef, stream)
    /\ mediaStreamRef' = ClearRef(mediaStreamRef)
    /\ graph' = DisconnectGraph(processorRef, sourceRef, graph)
    /\ processorRef' = ClearRef(processorRef)
    /\ sourceRef' = ClearRef(sourceRef)
    /\ inCtx' = CloseContext(audioContextRef, inCtx)
    /\ audioContextRef' = ClearRef(audioContextRef)
    /\ isConnected' = SetState(isConnected, FALSE)
    /\ isSpeaking' = SetState(isSpeaking, FALSE)
    /\ isAgentSpeaking' = SetState(isAgentSpeaking, FALSE)
    /\ nextStartTimeRef' = 0
    /\ lastScheduledEnd' = 0
    /\ srcState' = StopSources(srcState, sourcesRef, "torn")
    /\ sourcesRef' = {}
    /\ reset' = "teardown"
    /\ torn' = TornAfterStop
    /\ UNCHANGED <<sessionRef, outCreated, sched, lastIntT, intArr>>

\* The teardown steps that call into a device and so can throw: 1 track.stop
\* (line 23), 2 processor.disconnect (line 27), 3 source.disconnect (line 31),
\* 4 context.close (line 35), 5 a playback source's stop (line 46).
ThrowSteps == 1..5

\* The position of buffer source id in the active set's iteration order,
\* which is the order the sources were added in (line 111).
SchedPos(id) == CHOOSE i \in DOMAIN sched : sched[i].id = id

\* Line 46 when stop() of source bad throws: the sources visited before it
\* were stopped, bad and the ones after it were not.
StopSourcesUntil(states, set, bad) ==
    [i \in MsgIds |->
        IF i \in set /\ SchedPos(i) < SchedPos(bad) THEN "torn" ELSE states[i]]

\* Lines 21-48 when step k throws.  Nothing in the routine catches, so the
\* statements before the throwing call have run and nothing after it does.
StopEverythingThrows(k) ==
    /\ k = 1 => mediaStreamRef # 0
    /\ k = 2 => processorRef # 0
    /\ k = 3 => sourceRef # 0
    /\ k = 4 => audioContextRef # 0
    /\ k = 5 => sourcesRef # {}
    /\ stream' = IF k > 1 THEN StopTracks(mediaStreamRef, stream) ELSE stream
    /\ mediaStreamRef' = IF k > 1 THEN ClearRef(mediaStreamRef)
                         ELSE mediaStreamRef
    /\ graph' = IF k > 3 THEN DisconnectGraph(processorRef, sourceRef, graph)
                ELSE IF k > 2 THEN DisconnectGraph(processorRef, 0, graph)
                ELSE graph
    /\ processorRef' = IF k > 2 THEN ClearRef(processorRef) ELSE processorRef
    /\ sourceRef' = IF k > 3 THEN ClearRef(sourceRef) ELSE sourceRef
    /\ inCtx' = IF k > 4 THEN CloseContext(audioContextRef, inCtx) ELSE inCtx
    /\ audioContextRef' = IF k > 4 THEN ClearRef(audioContextRef)
                          ELSE audioContextRef
    /\ isConnected' = IF k > 4 THEN SetState(isConnected, FALSE)
                      ELSE isConnected
    /\ isSpeaking' = IF k > 4 THEN SetState(isSpeaking, FALSE) ELSE isSpeaking
    /\ isAgentSpeaking' = IF k > 4 THEN SetState(isAgentSpeaking, FALSE)
                          ELSE isAgentSpeaking
    /\ nextStartTimeRef' = IF k > 4 THEN 0 ELSE nextStartTimeRef
    /\ lastScheduledEnd' = IF k > 4 THEN 0 ELSE lastScheduledEnd
    /\ reset' = IF k > 4 THEN "teardown" ELSE reset
    /\ IF k = 5
       THEN \E bad \in sourcesRef :
               srcState' = StopSourcesUntil(srcState, sourcesRef, bad)
       ELSE UNCHANGED srcState
    /\ torn' = TornAfterStop
    /\ UNCHANGED <<sourcesRef, sessionRef, outCreated, sched, lastIntT, intArr>>

\* ---------------------------------------------------------- startSession
\* Lines 50-56, up to the await: the button's onClick runs startSession
\* whenever isConnected is false (line 166).
StartClick ==
    /\ mounted
    /\ ~isConnected
    /\ started < MaxSessions
    /\ LET s == started + 1 IN
        /\ started' = s
        /\ audioContextRef' = s
        /\ inCtx' = [inCtx EXCEPT ![s] = "open"]
        /\ outCreated' = [outCreated EXCEPT ![s] = now]
        /\ pc' = [pc EXCEPT ![s] = "gum"]
    /\ UNCHANGED <<mounted, flags, mediaStreamRef, processorRef, sourceRef,
                   sessionRef, stream, graph, play, capture, now, arrivals,
                   pending, torn>>

\* Lines 56-60: getUserMedia resolves; the stream is kept and the transport
\* connection is requested.
GumResolve(s) ==
    /\ pc[s] = "gum"
    /\ stream' = [stream EXCEPT ![s] = "live"]
    /\ mediaStreamRef' = s
    /\ sessionRef' = s
    /\ promise' = [promise EXCEPT ![s] = "pending"]
    /\ pc' = [pc EXCEPT ![s] = "connecting"]
    /\ UNCHANGED <<mounted, flags, audioContextRef, processorRef, sourceRef,
                   inCtx, outCreated, graph, graphCtx, frames, queued, sent,
                   play, started, now, arrivals, pending, torn>>

\* Lines 56 and 135-138: getUserMedia rejects; the catch block reports it.
GumReject(s) ==
    /\ pc[s] = "gum"
    /\ pc' = [pc EXCEPT ![s] = "failed"]
    /\ UNCHANGED <<mounted, flags, refs, devices, play, capture, started, now,
                   arrivals, pending, torn>>

\* Lines 79-81, run for the sends qs that waited on the session promise of
\* session `to`: the then-callbacks of one promise run in the order they
\* were registered.  `late` records that stopEverything ran since the
\* capturing session started, `toOpen` that the receiving transport is open.
SendQueued(qs, to) ==
    [i \in 1..Len(qs) |->
        [f |-> qs[i].f, src |-> qs[i].src, to |-> to,
         late |-> torn[qs[i].src] # "no", toOpen |-> TRUE]]

\* Lines 61-86: onOpen.  The connection is open, so the session promise of
\* s resolves and the sends waiting on it are made.
OnOpen(s) ==
    /\ pc[s] = "connecting"
    /\ pc' = [pc EXCEPT ![s] = "open"]
    /\ isConnected' = SetState(isConnected, TRUE)
    /\ IF audioContextRef = 0
       THEN UNCHANGED <<sourceRef, processorRef, graph, graphCtx>>
       ELSE /\ sourceRef' = s
            /\ processorRef' = s
            /\ graph' = [graph EXCEPT ![s] = "wired"]
            /\ graphCtx' = [graphCtx EXCEPT ![s] = audioContextRef]
    /\ promise' = [promise EXCEPT ![s] = "resolved"]
    /\ sent' = sent \o SendQueued(queued[s], s)
    /\ queued' = [queued EXCEPT ![s] = <<>>]
    /\ UNCHANGED <<mounted, isSpeaking, isAgentSpeaking, audioContextRef,
                   mediaStreamRef, sessionRef, inCtx, outCreated, stream,
                   frames, play, started, now, arrivals, pending, torn>>

\* Mutant of Abs: the sign is kept.
AbsSigned(x) == x

\* Math.abs.
Abs(x) == IF x < 0 THEN -x ELSE x

\* Line 74: inputData.reduce((a, b) => a + Math.abs(b), 0).
RECURSIVE SumAbs(_)
SumAbs(data) ==
    IF data = <<>> THEN 0 ELSE Abs(Head(data)) + SumAbs(Tail(data))

\* Line 75: the value handed to setIsSpeaking.
Speaking(data) == SumAbs(data) > SumThreshold

\* The values line 75 takes over the frames of the configured size.
Verdicts == {Speaking(data) : data \in Frames}

\* Lines 72-75 on one frame of the configured size.
Measure ==
    /\ steps = 0
    /\ Len(inputData) = FrameSize
    /\ isSpeaking' = SetState(isSpeaking, Speaking(inputData))
    /\ steps' = steps + 1
    /\ UNCHANGED <<mounted, isConnected, isAgentSpeaking, refs, devices, play,
                   capture, started, pc, now, arrivals, pending, torn,
                   inputData, storage>>

\* Lines 71-82: onaudioprocess of the capture graph wired by session g.  The
\* graph delivers frames while it is wired and its context is open.  The
\* frame is handed to whatever session promise sessionRef holds now: sent at
\* once when that promise is resolved, queued on it while it is pending,
\* lost when it is rejected.
OnAudioProcess(g) ==
    /\ graph[g] = "wired"
    /\ inCtx[graphCtx[g]] = "open"
    /\ frames < MaxFrames
    /\ frames' = frames + 1
    /\ \E loud \in Verdicts : isSpeaking' = SetState(isSpeaking, loud)
    /\ LET to == sessionRef
           e  == [f |-> frames + 1, src |-> g, to |-> to,
                  late |-> torn[g] # "no", toOpen |-> pc[to] = "open"]
       IN IF to # 0 /\ promise[to] = "resolved"
          THEN sent' = Append(sent, e) /\ UNCHANGED queued
          ELSE IF to # 0 /\ promise[to] = "pending"
          THEN /\ queued' = [queued EXCEPT
                       ![to] = Append(@, [f |-> frames + 1, src |-> g])]
               /\ UNCHANGED sent
          ELSE UNCHANGED <<queued, sent>>
    /\ UNCHANGED <<mounted, isConnected, isAgentSpeaking, refs, devices,
                   graphCtx, promise, play, started, pc, now, arrivals,
                   pending, torn>>

\* ------------------------------------------------------------- onMessage
\* Mutant of ScheduleStart: the cursor is forgotten, every buffer starts at the clock.
ScheduleStartAtClock(cursor, clk) == clk

\* Lines 103-106: the start time is the cursor, moved up to the clock.
ScheduleStart(cursor, clk) == IF cursor < clk THEN clk ELSE cursor

\* Mutant of AdvanceCursor: the duration is not added.
AdvanceCursorNoDuration(start, dur) == start

\* Line 109: the cursor moves to the end of the buffer just scheduled.
AdvanceCursor(start, dur) == start + dur

\* Mutant of InterruptCursor: the interruption leaves the cursor alone.
InterruptCursorKept(cursor) == cursor

\* Line 121: the cursor after an interruption.
InterruptCursor(cursor) == 0

\* Line 121 as the specification has it: the cursor is reset to the output
\* clock's current time.
InterruptCursorAtClock(clk) == clk

\* Mutant of InterruptSpeaking: the interruption leaves AgentSpeaking alone.
InterruptSpeakingKept(cur) == cur

\* Line 122.
InterruptSpeaking(cur) == SetState(cur, FALSE)

\* Lines 118-123 run by session s for message id, on active set `set` and
\* source states `states`.
HandleInterrupt(s, id, set, states) ==
    /\ srcState' = StopSources(states, set, "flushed")
    /\ sourcesRef' = {}
    /\ nextStartTimeRef' = InterruptCursor(nextStartTimeRef)
    /\ lastScheduledEnd' = InterruptCursorAtClock(CurrentTime(s))
    /\ isAgentSpeaking' = InterruptSpeaking(isAgentSpeaking)
    /\ reset' = "interrupt"
    /\ lastIntT' = [lastIntT EXCEPT ![s] = CurrentTime(s)]
    /\ intArr' = [intArr EXCEPT ![s] = id]

\* Lines 87-91 and 118-123: a message is delivered.  With audio, the handler
\* sets AgentSpeaking and suspends at the await (its interrupted flag is
\* looked at only after the await); without audio, an interrupted flag is
\* handled at once.
OnMessage(s) ==
    /\ pc[s] = "open"
    /\ arrivals < MaxMsgs
    /\ arrivals' = arrivals + 1
    /\ \/ \E dur \in Durations, intr \in BOOLEAN :
            /\ isAgentSpeaking' = SetState(isAgentSpeaking, TRUE)
            /\ pending' = pending \cup
                  {[id |-> arrivals + 1, s |-> s, dur |-> dur, intr |-> intr]}
            /\ UNCHANGED play
       \/ /\ HandleInterrupt(s, arrivals + 1, sourcesRef, srcState)
          /\ UNCHANGED <<pending, sched>>
    /\ UNCHANGED <<mounted, isConnected, isSpeaking, refs, devices, capture,
                   started, pc, now, torn>>

\* decodeAudioData is imported from services/audioUtils: any suspended
\* handler may be the next one whose decode completes.
DecodeReady(p) == p \in pending

\* Lines 98-123: the decode of p completed; the buffer is scheduled, and
\* then the message's interrupted flag, if any, is handled.
DecodeDone(p) ==
    /\ DecodeReady(p)
    /\ LET clk   == CurrentTime(p.s)
           start == ScheduleStart(nextStartTimeRef, clk)
           alt   == ScheduleStart(lastScheduledEnd, clk)
           e     == [id |-> p.id, s |-> p.s, start |-> start, dur |-> p.dur,
                     clk |-> clk, reset |-> reset, intT |-> lastIntT[p.s],
                     alt |-> alt]
       IN /\ sched' = Append(sched, e)
          /\ IF p.intr
             THEN HandleInterrupt(p.s, p.id, sourcesRef \cup {p.id},
                                  [srcState EXCEPT ![p.id] = "started"])
             ELSE /\ srcState' = [srcState EXCEPT ![p.id] = "started"]
                  /\ sourcesRef' = sourcesRef \cup {p.id}
                  /\ nextStartTimeRef' = AdvanceCursor(start, p.dur)
                  /\ lastScheduledEnd' = AdvanceCursor(alt, p.dur)
                  /\ reset' = "none"
                  /\ UNCHANGED <<isAgentSpeaking, lastIntT, intArr>>
    /\ pending' = pending \ {p}
    /\ UNCHANGED <<mounted, isConnected, isSpeaking, refs, devices, capture,
                   started, pc, now, arrivals, torn>>

\* Line 91: the decode of p failed; the async handler ends there.
DecodeFail(p) ==
    /\ DecodeReady(p)
    /\ pending' = pending \ {p}
    /\ UNCHANGED <<mounted, flags, refs, devices, play, capture, started, pc,
                   now, arrivals, torn>>

\* The scheduled entry of buffer source id.
Entry(id) == CHOOSE e \in {sched[i] : i \in DOMAIN sched} : e.id = id

\* The output device fires a source's ended event once it played out, or
\* once it was stopped.
Ended(id) ==
    \/ srcState[id] \in {"flushed", "torn"}
    \/ /\ srcState[id] = "started"
       /\ CurrentTime(Entry(id).s) >= Entry(id).start + Entry(id).dur

\* Mutant of EndedSpeaking: the callback clears AgentSpeaking whatever is
\* left in the active set.
EndedSpeakingAlways(set, cur) == SetState(cur, FALSE)

\* Line 114.
EndedSpeaking(set, cur) == IF set = {} THEN SetState(cur, FALSE) ELSE cur

\* Lines 112-115: source.onended.
OnEnded(id) ==
    /\ Ended(id)
    /\ srcState' = [srcState EXCEPT ![id] = "done"]
    /\ sourcesRef' = sourcesRef \ {id}
    /\ isAgentSpeaking' = EndedSpeaking(sourcesRef \ {id}, isAgentSpeaking)
    /\ UNCHANGED <<mounted, isConnected, isSpeaking, refs, devices, capture,
                   nextStartTimeRef, lastScheduledEnd, sched, reset, lastIntT,
                   intArr, started,
                   pc, now, arrivals, pending, torn>>

\* ---------------------------------------------------- teardown triggers
\* A connection that ends before it opened yields no session: the sends
\* waiting on its session promise are never made.  One that had opened
\* keeps its resolved promise.
Settled(s) ==
    [promise EXCEPT ![s] = IF @ = "pending" THEN "rejected" ELSE @]

\* Lines 125-128: onClose.
OnClose(s) ==
    /\ pc[s] \in {"connecting", "open", "errored"}
    /\ StopEverything
    /\ pc' = [pc EXCEPT ![s] = "closed"]
    /\ promise' = Settled(s)
    /\ UNCHANGED <<mounted, graphCtx, frames, queued, sent, started, now,
                   arrivals, pending>>

\* Lines 129-132: onError.
OnError(s) ==
    /\ pc[s] \in {"connecting", "open"}
    /\ StopEverything
    /\ pc' = [pc EXCEPT ![s] = "errored"]
    /\ promise' = Settled(s)
    /\ UNCHANGED <<mounted, graphCtx, frames, queued, sent, started, now,
                   arrivals, pending>>

\* Line 166: the button's onClick runs stopEverything while isConnected.
StopClick ==
    /\ mounted
    /\ isConnected
    /\ StopEverything
    /\ UNCHANGED <<mounted, capture, started, pc, now, arrivals, pending>>

\* Lines 141-145: the unmount cleanup.
Unmount ==
    /\ mounted
    /\ StopEverything
    /\ mounted' = FALSE
    /\ UNCHANGED <<capture, started, pc, now, arrivals, pending>>

\* Lines 125-128: onClose when stopEverything throws at step k, into the
\* transport's callback dispatch.
OnCloseThrows(s, k) ==
    /\ pc[s] \in {"connecting", "open", "errored"}
    /\ StopEverythingThrows(k)
    /\ pc' = [pc EXCEPT ![s] = "closed"]
    /\ promise' = Settled(s)
    /\ UNCHANGED <<mounted, graphCtx, frames, queued, sent, started, now,
                   arrivals, pending>>

\* Lines 129-132: onError when stopEverything throws at step k.
OnErrorThrows(s, k) ==
    /\ pc[s] \in {"connecting", "open"}
    /\ StopEverythingThrows(k)
    /\ pc' = [pc EXCEPT ![s] = "errored"]
    /\ promise' = Settled(s)
    /\ UNCHANGED <<mounted, graphCtx, frames, queued, sent, started, now,
                   arrivals, pending>>

\* Line 166: the button's onClick when stopEverything throws at step k, into
\* the event dispatch.
StopClickThrows(k) ==
    /\ mounted
    /\ isConnected
    /\ StopEverythingThrows(k)
    /\ UNCHANGED <<mounted, capture, started, pc, now, arrivals, pending>>

\* Lines 141-145: the unmount cleanup when stopEverything throws at step k;
\* the component is unmounted all the same.
UnmountThrows(k) ==
    /\ mounted
    /\ StopEverythingThrows(k)
    /\ mounted' = FALSE
    /\ UNCHANGED <<capture, started, pc, now, arrivals, pending>>

\* Time passes: every output context's currentTime advances (there is no
\* clock to read before the first context exists).
Tick ==
    /\ now < MaxClock
    /\ started > 0
    /\ now' = now + 1
    /\ UNCHANGED <<mounted, flags, refs, devices, play, capture, started, pc,
                   arrivals, pending, torn>>

\* The lifecycle with the inbound path: messages, decodes, playback and the
\* output clock.
Next ==
    \/ Step /\ StartClick
    \/ Step /\ \E s \in Sessions : GumResolve(s)
    \/ Step /\ \E s \in Sessions : GumReject(s)
    \/ Step /\ \E s \in Sessions : OnOpen(s)
    \/ Step /\ \E s \in Sessions : OnMessage(s)
    \/ Step /\ \E p \in pending : DecodeDone(p)
    \/ Step /\ \E p \in pending : DecodeFail(p)
    \/ Step /\ \E id \in MsgIds : OnEnded(id)
    \/ Step /\ \E s \in Sessions : OnClose(s)
    \/ Step /\ \E s \in Sessions : OnError(s)
    \/ Step /\ StopClick
    \/ Step /\ Unmount
    \/ Step /\ Tick

Spec == Init /\ [][Next]_vars

\* The lifecycle with the outbound path: capture frames and their sends.
NextCapture ==
    \/ CapStep /\ StartClick
    \/ CapStep /\ \E s \in Sessions : GumResolve(s)
    \/ CapStep /\ \E s \in Sessions : GumReject(s)
    \/ CapStep /\ \E s \in Sessions : OnOpen(s)
    \/ CapStep /\ \E g \in Sessions : OnAudioProcess(g)
    \/ CapStep /\ \E s \in Sessions : OnClose(s)
    \/ CapStep /\ \E s \in Sessions : OnError(s)
    \/ CapStep /\ StopClick
    \/ CapStep /\ Unmount

SpecCapture == Init /\ [][NextCapture]_vars

\* The lifecycle with the inbound path, on devices whose calls can throw.
NextThrow ==
    \/ Next
    \/ Step /\ \E k \in ThrowSteps : StopClickThrows(k)
    \/ Step /\ \E k \in ThrowSteps : UnmountThrows(k)
    \/ Step /\ \E s \in Sessions, k \in ThrowSteps : OnCloseThrows(s, k)
    \/ Step /\ \E s \in Sessions, k \in ThrowSteps : OnErrorThrows(s, k)

SpecThrow == Init /\ [][NextThrow]_vars

\* The scheduler over overlapping sessions: starts, opens, messages, decodes,
\* the clock and the user's stop.
NextCursor ==
    \/ CurStep /\ StartClick
    \/ CurStep /\ \E s \in Sessions : GumResolve(s)
    \/ CurStep /\ \E s \in Sessions : OnOpen(s)
    \/ CurStep /\ \E s \in Sessions : OnMessage(s)
    \/ CurStep /\ \E p \in pending : DecodeDone(p)
    \/ CurStep /\ StopClick
    \/ CurStep /\ Tick

SpecCursor == Init /\ [][NextCursor]_vars

\* The output device fires a completion callback; it goes on doing so after
\* the explored run of handler invocations.
Drain ==
    /\ \E id \in MsgIds : OnEnded(id)
    /\ UNCHANGED <<steps, inputData, storage>>

\* The lifecycle with the inbound path, on an output device that fires every
\* completion callback.
NextLive ==
    \/ Next
    \/ Drain

SpecLive == Init /\ [][NextLive]_vars /\ WF_vars(Drain)

\* The volume check alone, on every frame of the configured size.
InitActivity == Idle /\ inputData \in Frames /\ StorageEmpty

NextActivity == Measure

SpecActivity == InitActivity /\ [][NextActivity]_vars

\* ------------------------------------------------- services/storage.ts
\* Mutant of ToLowerCase: the case is kept.
ToLowerCaseKept(name) == name

\* String.prototype.toLowerCase, on the usernames of the model.
ToLowerCase(name) ==
    CASE name = "Ali" -> "ali"
      [] name = "ALI" -> "ali"
      [] OTHER -> name

\* storage.ts lines 8-11.
DEFAULT_PREFERENCES ==
    [transliterationScheme |-> "ISO", includeLiteralTranslation |-> TRUE]

\* Partial<UserPreferences>: any of the two fields, each with any value.
PartialPreferences ==
    {[k \in {} |-> TRUE]}
    \cup {[transliterationScheme |-> s] : s \in Schemes}
    \cup {[includeLiteralTranslation |-> b] : b \in BOOLEAN}
    \cup [transliterationScheme : Schemes, includeLiteralTranslation : BOOLEAN]

\* storage.ts line 74: { ...old, ...prefs }.
Spread(old, prefs) ==
    [k \in DOMAIN old \cup DOMAIN prefs |->
        IF k \in DOMAIN prefs THEN prefs[k] ELSE old[k]]

\* Array.prototype.findIndex on a stored list, by id: the first index whose
\* element has the id, 0 for the -1 of no match.
FindIndex(list, id) ==
    IF \E i \in DOMAIN list : list[i].id = id
    THEN CHOOSE i \in DOMAIN list :
            /\ list[i].id = id
            /\ \A j \in 1..(i-1) : list[j].id # id
    ELSE 0

\* storage.ts lines 33 and 43: the first stored user whose lower-cased
\* username is the lower-cased `username`, 0 when there is none.
FindByName(list, username) ==
    IF \E i \in DOMAIN list :
          ToLowerCase(list[i].username) = ToLowerCase(username)
    THEN CHOOSE i \in DOMAIN list :
            /\ ToLowerCase(list[i].username) = ToLowerCase(username)
            /\ \A j \in 1..(i-1) :
                  ToLowerCase(list[j].username) # ToLowerCase(username)
    ELSE 0

\* storage.ts lines 22-27 and 92-97: replace the element with the same id
\* in place, or push.
Upsert(list, x) ==
    IF FindIndex(list, x.id) # 0
    THEN [list EXCEPT ![FindIndex(list, x.id)] = x]
    ELSE Append(list, x)

\* storage.ts line 48: crypto.randomUUID() gives an id no stored user has.
RandomUUID(list) == Len(list) + 1

\* storage.ts lines 41-57: register.
Register(username, email) ==
    /\ IF FindByName(users, username) # 0
       THEN /\ ret' = Returned("threw", 0, <<>>)
            /\ UNCHANGED <<users, currentUser>>
       ELSE LET newUser == [id |-> RandomUUID(users), username |-> username,
                            email |-> email,
                            preferences |-> DEFAULT_PREFERENCES]
            IN /\ users' = Upsert(users, newUser)
               /\ currentUser' = newUser.id
               /\ ret' = Returned("user", newUser.id, <<>>)
    /\ UNCHANGED <<projects, conversation>>

\* storage.ts lines 31-39: login.
Login(username) ==
    /\ IF FindByName(users, username) # 0
       THEN /\ currentUser' = users[FindByName(users, username)].id
            /\ ret' = Returned("user", users[FindByName(users, username)].id,
                               <<>>)
       ELSE /\ ret' = Returned("null", 0, <<>>)
            /\ UNCHANGED currentUser
    /\ UNCHANGED <<users, projects, conversation>>

\* storage.ts lines 59-61: logout.
Logout ==
    /\ currentUser' = 0
    /\ ret' = Returned("void", 0, <<>>)
    /\ UNCHANGED <<users, projects, conversation>>

\* storage.ts lines 70-79: updatePreferences.
UpdatePreferences(userId, prefs) ==
    /\ IF FindIndex(users, userId) # 0
       THEN /\ users' = [users EXCEPT ![FindIndex(users, userId)].preferences =
                                          Spread(@, prefs)]
            /\ ret' = Returned("user", userId, <<>>)
       ELSE /\ ret' = Returned("null", 0, <<>>)
            /\ UNCHANGED users
    /\ UNCHANGED <<currentUser, projects, conversation>>

\* The user management of the service.
NextUsers ==
    \/ \E username \in Usernames, email \in Emails : Register(username, email)
    \/ \E username \in Usernames : Login(username)
    \/ Logout
    \/ \E userId \in UserIds, prefs \in PartialPreferences :
          UpdatePreferences(userId, prefs)

SpecUsers == Init /\ [][NextUsers]_vars

\* The projects handed to saveProject, by the fields the service looks at.
Projects == [id : ProjectIds, userId : OwnerIds, createdAt : Times]

\* Mutant of Compare: oldest first.
CompareAscending(a, b) == a.createdAt - b.createdAt

\* storage.ts line 85: the comparator of the sort.
Compare(a, b) == b.createdAt - a.createdAt

\* Array.prototype.sort with Compare, which is stable: x goes behind the
\* elements it does not sort before.
RECURSIVE Insert(_, _)
Insert(sorted, x) ==
    IF sorted = <<>> THEN <<x>>
    ELSE IF Compare(Head(sorted), x) <= 0
         THEN <<Head(sorted)>> \o Insert(Tail(sorted), x)
         ELSE <<x>> \o sorted

RECURSIVE Sort(_)
Sort(list) ==
    IF list = <<>> THEN <<>>
    ELSE Insert(Sort(SubSeq(list, 1, Len(list) - 1)), list[Len(list)])

\* Array.prototype.filter by owner (line 85) and by id (line 105).
RECURSIVE OfUser(_, _)
OfUser(list, userId) ==
    IF list = <<>> THEN <<>>
    ELSE IF Head(list).userId = userId
         THEN <<Head(list)>> \o OfUser(Tail(list), userId)
         ELSE OfUser(Tail(list), userId)

RECURSIVE Without(_, _)
Without(list, projectId) ==
    IF list = <<>> THEN <<>>
    ELSE IF Head(list).id # projectId
         THEN <<Head(list)>> \o Without(Tail(list), projectId)
         ELSE Without(Tail(list), projectId)

\* storage.ts lines 82-86: getProjects.
GetProjects(userId) ==
    /\ ret' = Returned("list", 0, Sort(OfUser(projects, userId)))
    /\ UNCHANGED <<users, currentUser, projects, conversation>>

\* storage.ts lines 88-100: saveProject.
SaveProject(project) ==
    /\ projects' = Upsert(projects, project)
    /\ ret' = Returned("void", 0, <<>>)
    /\ UNCHANGED <<users, currentUser, conversation>>

\* storage.ts lines 102-107: deleteProject.
DeleteProject(projectId) ==
    /\ projects' = Without(projects, projectId)
    /\ ret' = Returned("void", 0, <<>>)
    /\ UNCHANGED <<users, currentUser, conversation>>

\* The project management of the service.
NextProjects ==
    \/ \E userId \in OwnerIds : GetProjects(userId)
    \/ \E project \in Projects : SaveProject(project)
    \/ \E projectId \in ProjectIds : DeleteProject(projectId)

SpecProjects == Init /\ [][NextProjects]_vars

\* ===================================================== playback claims
\* End of the buffer scheduled just before the i-th one (i > 1).
PrevEnd(i) == sched[i-1].start + sched[i-1].dur

NoResetBetween(i, j) == \A k \in (i+1)..j : sched[k].reset = "none"

\* C2: chunks of one session are scheduled in arrival order: of two chunks
\* scheduled with no cursor reset in between, the one that arrived first
\* (smaller id) has the start time that is no later.
C2_ScheduledInArrivalOrder ==
    \A i, j \in DOMAIN sched :
        (/\ i < j
         /\ sched[i].s = sched[j].s
         /\ NoResetBetween(i, j))
        => /\ sched[i].id < sched[j].id
           /\ sched[i].start <= sched[j].start

\* C3 as stated: whenever a buffer is scheduled while the clock has not
\* passed the end of the previous buffer of its run (a buffer that arrived
\* before it), it starts exactly at that end.
C3_GaplessAsStated ==
    \A i \in DOMAIN sched :
        (/\ i > 1
         /\ sched[i].reset # "teardown"
         /\ sched[i-1].id < sched[i].id
         /\ sched[i].clk <= PrevEnd(i))
        => sched[i].start = PrevEnd(i)

\* C3 amended: whenever a buffer is scheduled while the clock has not
\* passed the end of the previous buffer, and no interruption (or teardown)
\* reset the cursor since that buffer was scheduled, it starts exactly at
\* the previous buffer's end: zero gap, zero overlap.
C3_GaplessUninterrupted ==
    \A i \in DOMAIN sched :
        (i > 1 /\ sched[i].reset = "none" /\ sched[i].clk <= PrevEnd(i))
        => sched[i].start = PrevEnd(i)

\* C3 witness: three chunks of duration 1 scheduled back to back at the
\* same clock value t0 start at t0, t0+1 and t0+2.
C3_Witness ==
    /\ Len(sched) >= 3
    /\ \A i \in 1..3 : sched[i].dur = 1 /\ sched[i].clk = sched[1].clk
    /\ \A i \in 2..3 : sched[i].reset = "none"
    /\ sched[1].start = sched[1].clk
    /\ sched[2].start = sched[1].clk + 1
    /\ sched[3].start = sched[1].clk + 2

\* C4: the step that handles an interruption stops every buffer of the
\* active set, whether it was waiting for its start time or playing, and
\* leaves the active set empty and AgentSpeaking false.
C4_InterruptionFlushesAll ==
    [][intArr' # intArr =>
          /\ \A id \in sourcesRef : srcState'[id] = "flushed"
          /\ \A id \in MsgIds : srcState'[id] # "started"
          /\ sourcesRef' = {}
          /\ ~isAgentSpeaking']_vars

\* C4 witness: an interruption at clock T flushed a buffer that was playing
\* (start <= T) and one still waiting for its start time (start > T).
C4_Witness ==
    \E a, b \in MsgIds :
        /\ srcState[a] = "flushed" /\ srcState[b] = "flushed"
        /\ Entry(a).s = Entry(b).s
        /\ Entry(a).start <= lastIntT[Entry(a).s]
        /\ Entry(b).start > lastIntT[Entry(b).s]
        /\ sourcesRef = {}
        /\ ~isAgentSpeaking

\* C5: a buffer scheduled after its session handled an interruption at
\* output clock value T starts at or after T; and the first buffer scheduled
\* after an interruption starts at the clock read when it is scheduled, not
\* at the end of a buffer scheduled before the interruption.
C5_StartsFromClockAfterInterruption ==
    \A i \in DOMAIN sched :
        LET e == sched[i] IN
        /\ e.intT >= 0 => e.start >= e.intT
        /\ e.reset = "interrupt" => e.start = e.clk

\* C5 witness: buffer A was scheduled, an interruption came before A's end,
\* and the next buffer B started at the clock, before A's former end.
C5_Witness ==
    \E i \in DOMAIN sched :
        /\ i > 1
        /\ sched[i].reset = "interrupt"
        /\ sched[i].intT >= 0
        /\ sched[i].s = sched[i-1].s
        /\ PrevEnd(i) > sched[i].clk
        /\ sched[i].start = sched[i].clk
        /\ sched[i].start >= sched[i].intT

\* C6: no audio sent before an interruption plays after the interruption was
\* handled: a source that is started (scheduled or playing, not stopped)
\* belongs to a message that arrived after the last interruption its session
\* handled.
C6_NoAudioFromBeforeInterruption ==
    \A id \in MsgIds :
        srcState[id] = "started" => intArr[Entry(id).s] < id

\* C7: AgentSpeaking is true exactly when the active set is non-empty.
C7_SpeakingIffActive == isAgentSpeaking <=> (sourcesRef # {})

\* ==================================================== lifecycle claims
\* A step that runs stopEverything.
TeardownStep ==
    \/ StopClick
    \/ Unmount
    \/ \E s \in Sessions : OnClose(s) \/ OnError(s)

\* C8: when stopEverything completes no device handle is held (no live
\* microphone stream, no wired capture graph, no open input or output audio
\* context), the active set is empty and the session is not connected.
C8_NothingHeldAfterTeardown ==
    [][TeardownStep =>
          /\ \A s \in Sessions :
                /\ stream'[s] # "live"
                /\ graph'[s] # "wired"
                /\ inCtx'[s] # "open"
                /\ outCreated'[s] < 0
          /\ sourcesRef' = {}
          /\ ~isConnected']_vars

\* A callback of session s fires: a pending getUserMedia resolution, onOpen,
\* onMessage, or the completion of one of its pending decodes.
CallbackOf(s) ==
    \/ GumResolve(s)
    \/ OnOpen(s)
    \/ OnMessage(s)
    \/ \E p \in pending : p.s = s /\ DecodeDone(p)

\* C9: once stopEverything ran for a session, its later callbacks are
\* no-ops: they do not set the session connected, acquire or wire nothing,
\* add no buffer to the active set and do not set AgentSpeaking.
C9_LateCallbacksAreNoOps ==
    [][\A s \in Sessions :
          (torn[s] # "no" /\ CallbackOf(s)) =>
              UNCHANGED <<isConnected, isAgentSpeaking, mediaStreamRef,
                          sourceRef, processorRef, stream, graph,
                          sourcesRef, srcState>>]_vars

\* C10: if stopEverything ran after a session's startSession and before that
\* session reached Open, then from then on its capture stream is not held
\* and the session is neither Open nor Errored.
C10_StopBeforeOpenHoldsNothing ==
    \A s \in Sessions :
        torn[s] = "early" =>
            /\ stream[s] # "live"
            /\ pc[s] \notin {"open", "errored"}

\* Device acquisitions so far: the getUserMedia streams obtained and the
\* input and output audio contexts created.
Acquired ==
    Cardinality({s \in Sessions : stream[s] # "none"})
    + Cardinality({s \in Sessions : inCtx[s] # "none"})
    + Cardinality({s \in Sessions : outCreated[s] >= 0})

\* Device releases so far: the streams whose tracks were stopped and the
\* contexts closed.  No statement of the component closes an output context.
Released ==
    Cardinality({s \in Sessions : stream[s] = "stopped"})
    + Cardinality({s \in Sessions : inCtx[s] = "closed"})

\* C11: whenever a stop completes, after any number of start/stop cycles in
\* any interleaving with the session callbacks, as many devices have been
\* released as were acquired.
C11_AcquisitionsEqualReleases ==
    [][TeardownStep => Acquired' = Released']_vars

\* The sessions whose transport connection was requested and has neither
\* closed nor failed: the live session handles.
LiveHandles == {s \in Sessions : pc[s] \in {"connecting", "open"}}

\* C12: in every reachable state there is at most one live microphone
\* stream, at most one wired capture graph and at most one live session
\* handle.
C12_AtMostOneGraphAndHandle ==
    /\ Cardinality({s \in Sessions : stream[s] = "live"}) <= 1
    /\ Cardinality({s \in Sessions : graph[s] = "wired"}) <= 1
    /\ Cardinality(LiveHandles) <= 1

\* C13: startSession does not run while a session that was not stopped is
\* Connecting (waiting for the microphone or for the transport) or Open.
C13_SecondStartRejected ==
    [][StartClick =>
          \A s \in Sessions :
              torn[s] = "no" => pc[s] \notin {"gum", "connecting", "open"}]_vars

\* C14: the microphone stream of a session is live only once its transport
\* has signalled Open, never while the session is still Connecting.
C14_DeviceAcquiredOnlyAfterOpen ==
    \A s \in Sessions : stream[s] = "live" => pc[s] # "connecting"

\* C15: every frame handed to sendRealtimeInput is sent while the session is
\* Open: the receiving transport is open, and stopEverything has not run
\* since the session whose capture graph produced the frame was started.
\* This covers the sends that waited on the session promise.
C15_FramesSentOnlyWhileOpen ==
    \A i \in DOMAIN sent : sent[i].toOpen /\ ~sent[i].late

\* C16: the frames reach sendRealtimeInput in the order the capture callback
\* produced them, the frames captured before the session promise resolved
\* included.
C16_FramesSentInCaptureOrder ==
    \A i, j \in DOMAIN sent : i < j => sent[i].f < sent[j].f

\* The state stopEverything leaves: the four device references null, the
\* active set empty, the flags false and the cursor reset.
TornDown ==
    /\ mediaStreamRef = 0
    /\ processorRef = 0
    /\ sourceRef = 0
    /\ audioContextRef = 0
    /\ sourcesRef = {}
    /\ ~isConnected /\ ~isSpeaking /\ ~isAgentSpeaking
    /\ nextStartTimeRef = 0

\* What a reference holds is still to be released: a stream with live
\* tracks, a wired node, an open context.
RefsHoldUnreleased ==
    /\ mediaStreamRef # 0 => stream[mediaStreamRef] = "live"
    /\ processorRef # 0 => graph[processorRef] = "wired"
    /\ sourceRef # 0 => graph[sourceRef] = "wired"
    /\ audioContextRef # 0 => inCtx[audioContextRef] = "open"

ThrowingTeardown ==
    \E k \in ThrowSteps :
        \/ StopClickThrows(k)
        \/ UnmountThrows(k)
        \/ \E s \in Sessions : OnCloseThrows(s, k) \/ OnErrorThrows(s, k)

\* C18: when a single step of stopEverything fails, the remaining steps are
\* still performed: the routine leaves the torn-down state, with no live
\* stream, no wired capture graph and no open input context.
C18_TeardownSurvivesFailingStep ==
    [][ThrowingTeardown =>
          /\ TornDown'
          /\ \A s \in Sessions :
                /\ stream'[s] # "live"
                /\ graph'[s] # "wired"
                /\ inCtx'[s] # "open"]_vars

\* C19: every teardown, whatever triggered it, requests the close of the
\* transport session: when stopEverything completes no transport is still
\* connecting or open, so the remote agent delivers no further events.
C19_TeardownClosesTransport ==
    [][TeardownStep =>
          \A s \in Sessions : pc'[s] \notin {"connecting", "open"}]_vars

\* C20: a transport failure, while Connecting or while Open, tears
\* everything down: afterwards the UI is disconnected and no resource is
\* held (no live stream, no wired graph, no open input or output context).
C20_TransportFailureTearsDown ==
    [][(\E f \in Sessions : OnError(f)) =>
          /\ ~isConnected'
          /\ TornDown'
          /\ \A s \in Sessions :
                /\ stream'[s] # "live"
                /\ graph'[s] # "wired"
                /\ inCtx'[s] # "open"
                /\ outCreated'[s] < 0]_vars

\* C21: when getUserMedia rejects, no transport session is opened for that
\* start, no capture graph is wired, and nothing it acquired is still held:
\* the input and output audio contexts created before the attempt are closed.
C21_AcquisitionFailureHoldsNothing ==
    [][\A s \in Sessions :
          GumReject(s) =>
              /\ promise'[s] = "none"
              /\ graph'[s] # "wired"
              /\ stream'[s] # "live"
              /\ inCtx'[s] # "open"
              /\ outCreated'[s] < 0]_vars

\* C22: chunks whose decode failed leave no trace in the scheduling state.
\* When every chunk that arrived so far failed to decode (nothing is
\* pending, nothing was scheduled, no interruption was handled), the
\* cursor, the active set and AgentSpeaking are as before the first arrival.
C22_FailedChunkLeavesNoTrace ==
    (pending = {} /\ sched = <<>> /\ \A s \in Sessions : intArr[s] = 0) =>
        /\ nextStartTimeRef = 0
        /\ sourcesRef = {}
        /\ ~isAgentSpeaking

\* The sum of the magnitudes of a frame: its mean absolute amplitude times
\* its length.
RECURSIVE Magnitude(_)
Magnitude(data) ==
    IF data = <<>> THEN 0
    ELSE (IF Head(data) < 0 THEN -Head(data) ELSE Head(data))
         + Magnitude(Tail(data))

\* mean > threshold, for the threshold SumThreshold / FrameSize on the mean:
\* both sides are multiplied by the two denominators.
MeanAboveThreshold(data) ==
    Magnitude(data) * FrameSize > SumThreshold * Len(data)

\* Every sample of the frame is a.
Constant(data, a) == \A i \in DOMAIN data : data[i] = a

\* C23: after the volume check of a frame, UserSpeaking is (mean absolute
\* amplitude > threshold): false for the all-zero frame, true for a frame of
\* constant amplitude above the threshold; the code's sum test agrees with
\* the mean rule on every frame of the configured size.
C23_SpeakingIsMeanAboveThreshold ==
    steps = 1 =>
        /\ isSpeaking = MeanAboveThreshold(inputData)
        /\ Constant(inputData, 0) => ~isSpeaking
        /\ \A a \in Samples :
              (Constant(inputData, a) /\ Abs(a) * FrameSize > SumThreshold)
                  => isSpeaking

\* The volume check ran on a frame of constant negative amplitude above the
\* threshold and set UserSpeaking.
C23_Witness ==
    /\ steps = 1
    /\ isSpeaking
    /\ \E a \in Samples :
          a < 0 /\ Constant(inputData, a) /\ -a * FrameSize > SumThreshold

\* C24: the session becomes Open (isConnected turns true) only by the
\* remote acknowledgement of the currently active start: the onOpen of the
\* latest startSession, with no stopEverything since that start.
C24_OpenOnlyByAckOfActiveStart ==
    [][(~isConnected /\ isConnected') =>
          \E s \in Sessions :
              OnOpen(s) /\ s = started /\ torn[s] = "no"]_vars

\* No further chunk arrives and every scheduled buffer has finished: all the
\* messages of the run were delivered, no decode is pending, and every buffer
\* of the active set has played out or was stopped.
AllFinished ==
    /\ arrivals = MaxMsgs
    /\ pending = {}
    /\ \A id \in sourcesRef : Ended(id)

\* C25: a buffer that finished is eventually removed from the active set;
\* and once no further chunk arrives and every scheduled buffer has
\* finished, eventually the active set is empty and AgentSpeaking is false.
C25_EventuallyNotSpeaking ==
    /\ \A id \in MsgIds : (id \in sourcesRef /\ Ended(id)) ~> (id \notin sourcesRef)
    /\ AllFinished ~> (sourcesRef = {} /\ ~isAgentSpeaking)

\* C26: resetting the cursor to 0 on interruption is equivalent to
\* resetting it to the output clock's current time: every scheduled buffer
\* got the start time it would have got under the other rule.
C26_ResetToZeroEquivalent ==
    \A i \in DOMAIN sched : sched[i].start = sched[i].alt

\* C27: when a message carries audio and the interrupted flag, its buffer
\* is scheduled and then flushed in the same call: when the handler
\* completes the buffer has a schedule entry and is stopped, the active set
\* is empty, the cursor is 0 and AgentSpeaking is false.
C27_AudioOfInterruptedMessageFlushed ==
    [][\A p \in pending :
          (p.intr /\ DecodeDone(p)) =>
              /\ \E i \in DOMAIN sched' : sched'[i].id = p.id
              /\ srcState'[p.id] = "flushed"
              /\ sourcesRef' = {}
              /\ nextStartTimeRef' = 0
              /\ ~isAgentSpeaking']_vars

\* A message with audio and the interrupted flag was handled while the
\* component was mounted: its own buffer was scheduled and then flushed by
\* its own interruption handling.
C27_Witness ==
    /\ mounted
    /\ ~isAgentSpeaking
    /\ reset = "interrupt"
    /\ \E i \in DOMAIN sched :
          /\ intArr[sched[i].s] = sched[i].id
          /\ srcState[sched[i].id] = "flushed"

\* The buffers that were started and have neither ended nor been flushed.
StartedSources == {id \in MsgIds : srcState[id] = "started"}

\* C28: the active set is always exactly the buffers that were started and
\* have neither ended nor been flushed; and the completion callback of a
\* buffer stopped by an interruption removes no other buffer from the set
\* and leaves AgentSpeaking alone while a buffer is still in the set.
C28_LateCompletionTouchesOnlyItself ==
    [][/\ sourcesRef' = StartedSources'
       /\ \A id \in MsgIds :
             (srcState[id] = "flushed" /\ OnEnded(id)) =>
                 /\ sourcesRef' = sourcesRef
                 /\ sourcesRef # {} => isAgentSpeaking' = isAgentSpeaking]_vars

\* The completion callback of a buffer flushed by an interruption has fired
\* (the buffer had not played out, and no teardown ran) while a newer buffer
\* is in the active set and AgentSpeaking is true.
C28_Witness ==
    /\ isAgentSpeaking
    /\ \A s \in Sessions : torn[s] = "no"
    /\ \E i, j \in DOMAIN sched :
          /\ i < j
          /\ srcState[sched[i].id] = "done"
          /\ CurrentTime(sched[i].s) < sched[i].start + sched[i].dur
          /\ sched[j].id \in sourcesRef

\* The usernames that differ in case only.
CaseVariants == {{"ali", "Ali", "ALI"}, {"sara"}}

EqualIgnoringCase(a, b) == \E c \in CaseVariants : a \in c /\ b \in c

\* No two entries of the stored user list agree in id or, ignoring case, in
\* username.
UsersDistinct(list) ==
    \A i, j \in DOMAIN list :
        i # j => /\ ~EqualIgnoringCase(list[i].username, list[j].username)
                 /\ list[i].id # list[j].id

\* C29: after any sequence of register, login, logout and updatePreferences
\* calls no two stored users have usernames equal ignoring case or the same
\* id; a register call rejected with 'Username already exists' leaves the
\* stored user list and the current-user id unchanged; and a login for a
\* username no stored user has returns null and leaves the current-user id
\* unchanged.
C29_UsersDistinctAndRejectionsInert ==
    [][/\ UsersDistinct(users')
       /\ \A username \in Usernames :
             /\ \A email \in Emails :
                   (Register(username, email) /\ ret'.kind = "threw") =>
                       UNCHANGED <<users, currentUser>>
             /\ (/\ Login(username)
                 /\ \A i \in DOMAIN users :
                       ~EqualIgnoringCase(users[i].username, username)) =>
                    ret'.kind = "null" /\ UNCHANGED currentUser]_vars

\* A register call was rejected while a user is logged in and the stored
\* list holds two users, one of them under a capitalised username.
C29_Witness ==
    /\ ret.kind = "threw"
    /\ currentUser # 0
    /\ Len(users) = 2
    /\ \E i \in DOMAIN users : users[i].username = "Ali"

\* No two entries of the stored project list have the same id.
IdsUnique(list) ==
    \A i, j \in DOMAIN list : list[i].id = list[j].id => i = j

\* The stored projects of a user.
StoredOf(userId) ==
    {projects[i] : i \in {j \in DOMAIN projects : projects[j].userId = userId}}

\* C30: after any sequence of saveProject and deleteProject calls the stored
\* project ids are unique; saveProject replaces the project with the same id
\* in place, or appends the project when no stored project has its id, and
\* changes no other stored project; deleteProject removes exactly the
\* projects with the given id; and getProjects(userId) returns exactly the
\* stored projects of that user, newest createdAt first.
C30_ProjectsKeptByIdAndListedNewestFirst ==
    [][/\ IdsUnique(projects')
       /\ \A project \in Projects :
             SaveProject(project) =>
                 IF \E i \in DOMAIN projects : projects[i].id = project.id
                 THEN /\ Len(projects') = Len(projects)
                      /\ \A i \in DOMAIN projects :
                            projects'[i] = IF projects[i].id = project.id
                                           THEN project ELSE projects[i]
                 ELSE projects' = Append(projects, project)
       /\ \A projectId \in ProjectIds :
             DeleteProject(projectId) =>
                 projects' = SelectSeq(projects, LAMBDA p : p.id # projectId)
       /\ \A userId \in OwnerIds :
             GetProjects(userId) =>
                 /\ ret'.kind = "list"
                 /\ {ret'.list[i] : i \in DOMAIN ret'.list} = StoredOf(userId)
                 /\ Len(ret'.list) = Cardinality(StoredOf(userId))
                 /\ \A i, j \in DOMAIN ret'.list :
                       i < j => ret'.list[i].createdAt >= ret'.list[j].createdAt
                 /\ projects' = projects]_vars

\* getProjects has returned two projects of one user that are stored oldest
\* first, with a project of another user stored between them.
C30_Witness ==
    /\ ret.kind = "list"
    /\ Len(ret.list) = 2
    /\ ret.list[1].createdAt > ret.list[2].createdAt
    /\ Len(projects) = 3
    /\ projects[1] = ret.list[2]
    /\ projects[3] = ret.list[1]
    /\ projects[2].userId # projects[1].userId
====
